---- MODULE Spec2Model ----
(***************************************************************************)
(* Model of Mini_player.py: a PyQt5 window holding two VLC media players   *)
(* (video, audio) and a 10 ms timer whose callback update_ui refreshes the *)
(* status bar, takes at most one value from a queue.Queue without blocking *)
(* and seeks each player to it when its position differs.                  *)
(*                                                                         *)
(* The UI thread runs main() and MiniPlayer.__init__ statement by          *)
(* statement (pc), then the event loop, in which the timer callback runs   *)
(* (tick_pc).  The VLC engine threads (playback progress, end of media)    *)
(* and the external producer of the queue interleave with every step.      *)
(***************************************************************************)
EXTENDS Integers, Sequences, FiniteSets, TLC

VARIABLES
    pc,                 \* position of the UI thread in main() / __init__ / open_files
    filename_video,     \* open_files local: answer of the first dialog
    filename_audio,     \* open_files local: answer of the second dialog
    video_media,        \* self.video_media
    audio_media,        \* self.audio_media
    video_mediaplayer,  \* self.video_mediaplayer, as the engine sees it
    audio_mediaplayer,  \* self.audio_mediaplayer, as the engine sees it
    window_title,       \* windowTitle()
    statusbar,          \* message shown by self.statusbar
    timer,              \* self.timer: "none", "created", "started"
    data_queue,         \* TRUE once self.data_queue is assigned
    queue,              \* contents of the queue.Queue made in main()
    tick_pc,            \* position of the timer callback update_ui
    val,                \* update_ui local val after int(val): <<>> or <<n>>
    enqueued,           \* history: every item ever put, in order
    dequeued,           \* history: every item ever got, in order
    video_seeks,        \* history: arguments of video_mediaplayer.set_time calls
    audio_seeks         \* history: arguments of audio_mediaplayer.set_time calls

vars == <<pc, filename_video, filename_audio, video_media, audio_media,
          video_mediaplayer, audio_mediaplayer, window_title, statusbar, timer,
          data_queue, queue, tick_pc, val, enqueued, dequeued, video_seeks,
          audio_seeks>>

----------------------------------------------------------------------------
(* Bounds of the model *)

\* total number of items the producer puts
MaxPuts == 2

\* playback progress of the engine is followed up to this position (ms)
MaxTime == 2000

\* the engine's progress between two observations (ms)
AdvanceSteps == {1000}

\* answers of the file dialogs: "" is a cancelled dialog
VideoPaths == {"", "movie.mp4"}
AudioPaths == {"", "track.mp3"}

\* platform.system()
Systems == {"Linux", "Windows", "Darwin", "Other"}

\* queue.Queue carries any Python object; the ones int() accepts here are
\* an int, a float (given in tenths) and a string of decimal digits
PyInt(n) == [kind |-> "int", n |-> n]
PyFloat(t) == [kind |-> "float", tenths |-> t]
PyStr(ds) == [kind |-> "str", digits |-> ds]

QueueItems == {PyInt(0), PyInt(5000), PyStr(<<5, 0, 0, 0>>), PyFloat(10005)}

----------------------------------------------------------------------------
(* Pure helpers *)

RECURSIVE ParseDigits(_)
ParseDigits(ds) ==
    IF ds = <<>> THEN 0
    ELSE 10 * ParseDigits(SubSeq(ds, 1, Len(ds) - 1)) + ds[Len(ds)]

\* int(val): an int is itself, a float is truncated towards zero, a string
\* of digits is read in base ten
int(v) ==
    CASE v.kind = "int" -> v.n
      [] v.kind = "float" ->
            IF v.tenths >= 0 THEN v.tenths \div 10 ELSE -((-v.tenths) \div 10)
      [] v.kind = "str" -> ParseDigits(v.digits)

\* QTime(0, 0, 0, 0).addMSecs(ms).toString(): hh:mm:ss, wrapping around the day
toString(ms) ==
    LET m == ms % (24 * 60 * 60 * 1000)
    IN <<m \div (60 * 60 * 1000), (m \div (60 * 1000)) % 60, (m \div 1000) % 60>>

showMessage(label, ms) == [label |-> label, time |-> toString(ms)]

----------------------------------------------------------------------------
(* The media player handles (vlc.MediaPlayer) *)

\* instance.media_player_new(): no media, position -1, not playing
media_player_new ==
    [media |-> "None", surface |-> "None", plays |-> 0, playing |-> FALSE,
     time |-> -1]

get_time(p) == p.time

is_playing(p) == p.playing

\* set_time has no effect if no media is being played
set_time(p, t) == IF p.playing THEN [p EXCEPT !.time = t] ELSE p

set_media(p, m) == [p EXCEPT !.media = m]

play(p) == [p EXCEPT !.plays = @ + 1, !.playing = TRUE, !.time = 0]

\* set_xwindow / set_hwnd / set_nsobject by platform; no binding elsewhere
BindSurface(p, system) ==
    [p EXCEPT !.surface =
        CASE system = "Linux" -> "xwindow"
          [] system = "Windows" -> "hwnd"
          [] system = "Darwin" -> "nsobject"
          [] OTHER -> @]

----------------------------------------------------------------------------
(* Initial state: main() has made the queue, __init__ has run up to init_ui *)

\* a constructor that creates and starts the timer before open_files
Init_timer_first ==
    /\ pc = "dialog_video"
    /\ filename_video = "unset"
    /\ filename_audio = "unset"
    /\ video_media = "None"
    /\ audio_media = "None"
    /\ video_mediaplayer = media_player_new
    /\ audio_mediaplayer = media_player_new
    /\ window_title = <<"Mini Player">>
    /\ statusbar = [label |-> "Ready", time |-> <<>>]
    /\ timer = "started"
    /\ data_queue = FALSE
    /\ queue = <<>>
    /\ tick_pc = "idle"
    /\ val = <<>>
    /\ enqueued = <<>>
    /\ dequeued = <<>>
    /\ video_seeks = <<>>
    /\ audio_seeks = <<>>

Init ==
    /\ pc = "dialog_video"
    /\ filename_video = "unset"
    /\ filename_audio = "unset"
    /\ video_media = "None"
    /\ audio_media = "None"
    /\ video_mediaplayer = media_player_new
    /\ audio_mediaplayer = media_player_new
    /\ window_title = <<"Mini Player">>
    /\ statusbar = [label |-> "Ready", time |-> <<>>]
    /\ timer = "none"
    /\ data_queue = FALSE
    /\ queue = <<>>
    /\ tick_pc = "idle"
    /\ val = <<>>
    /\ enqueued = <<>>
    /\ dequeued = <<>>
    /\ video_seeks = <<>>
    /\ audio_seeks = <<>>

tickVars == <<statusbar, queue, tick_pc, val, dequeued, video_seeks, audio_seeks>>
playerVars == <<video_mediaplayer, audio_mediaplayer>>
openVars == <<filename_video, filename_audio, video_media, audio_media,
              window_title>>

----------------------------------------------------------------------------
(* open_files, statement by statement *)

\* the statement __init__ continues with when open_files returns
AfterOpenFiles == "timer_new"

\* a cancelled video dialog that also skips the rest of the constructor
ChooseVideo_abort ==
    /\ pc = "dialog_video"
    /\ \E path \in VideoPaths :
          /\ filename_video' = path
          /\ pc' = IF path = "" THEN "show" ELSE "dialog_audio"
    /\ UNCHANGED <<filename_audio, video_media, audio_media, window_title,
                   playerVars, timer, data_queue, enqueued, tickVars>>

\* filename_video = getOpenFileName(...); if not filename_video[0]: return
ChooseVideo ==
    /\ pc = "dialog_video"
    /\ \E path \in VideoPaths :
          /\ filename_video' = path
          /\ pc' = IF path = "" THEN AfterOpenFiles ELSE "dialog_audio"
    /\ UNCHANGED <<filename_audio, video_media, audio_media, window_title,
                   playerVars, timer, data_queue, enqueued, tickVars>>

\* an open_files that loads and starts the video before asking for the audio
ChooseAudio_partial ==
    /\ pc = "dialog_audio"
    /\ \E path \in AudioPaths :
          /\ filename_audio' = path
          /\ pc' = IF path = "" THEN AfterOpenFiles ELSE "media_new"
          /\ video_media' = IF path = "" THEN filename_video ELSE video_media
          /\ video_mediaplayer' =
                IF path = "" THEN play(set_media(video_mediaplayer, filename_video))
                ELSE video_mediaplayer
    /\ UNCHANGED <<filename_video, audio_media, window_title, audio_mediaplayer,
                   timer, data_queue, enqueued, tickVars>>

\* filename_audio = getOpenFileName(...); if not filename_audio[0]: return
ChooseAudio ==
    /\ pc = "dialog_audio"
    /\ \E path \in AudioPaths :
          /\ filename_audio' = path
          /\ pc' = IF path = "" THEN AfterOpenFiles ELSE "media_new"
    /\ UNCHANGED <<filename_video, video_media, audio_media, window_title,
                   playerVars, timer, data_queue, enqueued, tickVars>>

\* self.video_media = media_new(...); self.audio_media = media_new(...)
MediaNew ==
    /\ pc = "media_new"
    /\ video_media' = filename_video
    /\ audio_media' = filename_audio
    /\ pc' = "set_media_video"
    /\ UNCHANGED <<filename_video, filename_audio, window_title, playerVars,
                   timer, data_queue, enqueued, tickVars>>

\* self.video_mediaplayer.set_media(self.video_media)
SetMediaVideo ==
    /\ pc = "set_media_video"
    /\ video_mediaplayer' = set_media(video_mediaplayer, video_media)
    /\ pc' = "set_media_audio"
    /\ UNCHANGED <<openVars, audio_mediaplayer, timer, data_queue, enqueued,
                   tickVars>>

\* self.audio_mediaplayer.set_media(self.audio_media)
SetMediaAudio ==
    /\ pc = "set_media_audio"
    /\ audio_mediaplayer' = set_media(audio_mediaplayer, audio_media)
    /\ pc' = "parse_title"
    /\ UNCHANGED <<openVars, video_mediaplayer, timer, data_queue, enqueued,
                   tickVars>>

\* parse() of both media; setWindowTitle("{}".format(video_media.get_meta(0)))
ParseTitle ==
    /\ pc = "parse_title"
    /\ window_title' = <<"meta 0 of", video_media>>
    /\ pc' = "bind_surface"
    /\ UNCHANGED <<filename_video, filename_audio, video_media, audio_media,
                   playerVars, timer, data_queue, enqueued, tickVars>>

\* the platform branch giving both players the window id of the video frame
BindSurfaces ==
    /\ pc = "bind_surface"
    /\ \E system \in Systems :
          /\ video_mediaplayer' = BindSurface(video_mediaplayer, system)
          /\ audio_mediaplayer' = BindSurface(audio_mediaplayer, system)
    /\ pc' = "play_video"
    /\ UNCHANGED <<openVars, timer, data_queue, enqueued, tickVars>>

\* self.video_mediaplayer.play()
PlayVideo ==
    /\ pc = "play_video"
    /\ video_mediaplayer' = play(video_mediaplayer)
    /\ pc' = "play_audio"
    /\ UNCHANGED <<openVars, audio_mediaplayer, timer, data_queue, enqueued,
                   tickVars>>

\* self.audio_mediaplayer.play(); open_files returns
PlayAudio ==
    /\ pc = "play_audio"
    /\ audio_mediaplayer' = play(audio_mediaplayer)
    /\ pc' = AfterOpenFiles
    /\ UNCHANGED <<openVars, video_mediaplayer, timer, data_queue, enqueued,
                   tickVars>>

----------------------------------------------------------------------------
(* the rest of __init__ and of main() *)

\* self.timer = QTimer(self); setInterval(10); timeout.connect(self.update_ui)
TimerNew ==
    /\ pc = "timer_new"
    /\ timer' = "created"
    /\ pc' = "attach_queue"
    /\ UNCHANGED <<openVars, playerVars, data_queue, enqueued, tickVars>>

\* self.data_queue = data_queue
AttachQueue ==
    /\ pc = "attach_queue"
    /\ data_queue' = TRUE
    /\ pc' = "timer_start"
    /\ UNCHANGED <<openVars, playerVars, timer, enqueued, tickVars>>

\* self.timer.start()
TimerStart ==
    /\ pc = "timer_start"
    /\ timer' = "started"
    /\ pc' = "show"
    /\ UNCHANGED <<openVars, playerVars, data_queue, enqueued, tickVars>>

\* player.show(); player.resize(480, 480); app.exec_()
Exec ==
    /\ pc = "show"
    /\ pc' = "exec"
    /\ UNCHANGED <<openVars, playerVars, timer, data_queue, enqueued, tickVars>>

\* Qt delivers timer events while an event loop runs on the UI thread: the
\* nested loop of a modal file dialog, or app.exec_()
EventLoopRunning == pc \in {"dialog_video", "dialog_audio", "exec"}

----------------------------------------------------------------------------
(* update_ui, the timer callback, statement by statement *)

\* an update_statusbar that asks the audio player first
update_statusbar_audio_first ==
    IF is_playing(audio_mediaplayer)
    THEN showMessage("Audio: ", get_time(audio_mediaplayer))
    ELSE IF is_playing(video_mediaplayer)
    THEN showMessage("Video: ", get_time(video_mediaplayer))
    ELSE statusbar

\* the message update_statusbar leaves in the status bar
update_statusbar ==
    IF is_playing(video_mediaplayer)
    THEN showMessage("Video: ", get_time(video_mediaplayer))
    ELSE IF is_playing(audio_mediaplayer)
    THEN showMessage("Audio: ", get_time(audio_mediaplayer))
    ELSE statusbar

\* the timer fires: update_ui starts and calls self.update_statusbar()
UpdateStatusbar ==
    /\ timer = "started"
    /\ EventLoopRunning
    /\ tick_pc = "idle"
    /\ statusbar' = update_statusbar
    /\ tick_pc' = "get"
    /\ UNCHANGED <<pc, openVars, playerVars, timer, data_queue, queue, val,
                   enqueued, dequeued, video_seeks, audio_seeks>>

\* a get that waits for an item: data_queue.get(block=True)
QueueGet_block ==
    /\ tick_pc = "get"
    /\ data_queue
    /\ queue # <<>>
    /\ val' = <<int(Head(queue))>>
    /\ queue' = Tail(queue)
    /\ dequeued' = Append(dequeued, Head(queue))
    /\ tick_pc' = "sync_video"
    /\ UNCHANGED <<pc, openVars, playerVars, timer, data_queue, statusbar,
                   enqueued, video_seeks, audio_seeks>>

\* a get that takes the newest item instead of the oldest
QueueGet_lifo ==
    /\ tick_pc = "get"
    /\ IF ~data_queue \/ queue = <<>>
       THEN /\ tick_pc' = "idle"
            /\ UNCHANGED <<queue, val, dequeued>>
       ELSE /\ val' = <<int(queue[Len(queue)])>>
            /\ queue' = SubSeq(queue, 1, Len(queue) - 1)
            /\ dequeued' = Append(dequeued, queue[Len(queue)])
            /\ tick_pc' = "sync_video"
    /\ UNCHANGED <<pc, openVars, playerVars, timer, data_queue, statusbar,
                   enqueued, video_seeks, audio_seeks>>

\* try: val = self.data_queue.get(block=False) / except queue.Empty: return;
\* val = int(val).  Without the attribute the callback ends in AttributeError.
QueueGet ==
    /\ tick_pc = "get"
    /\ IF ~data_queue \/ queue = <<>>
       THEN /\ tick_pc' = "idle"
            /\ UNCHANGED <<queue, val, dequeued>>
       ELSE /\ val' = <<int(Head(queue))>>
            /\ queue' = Tail(queue)
            /\ dequeued' = Append(dequeued, Head(queue))
            /\ tick_pc' = "sync_video"
    /\ UNCHANGED <<pc, openVars, playerVars, timer, data_queue, statusbar,
                   enqueued, video_seeks, audio_seeks>>

\* a video check that only seeks forward
SyncVideo_forward ==
    /\ tick_pc = "sync_video"
    /\ IF val[1] > get_time(video_mediaplayer)
       THEN /\ video_mediaplayer' = set_time(video_mediaplayer, val[1])
            /\ video_seeks' = Append(video_seeks, val[1])
       ELSE UNCHANGED <<video_mediaplayer, video_seeks>>
    /\ tick_pc' = "sync_audio"
    /\ UNCHANGED <<pc, openVars, audio_mediaplayer, timer, data_queue,
                   statusbar, queue, val, enqueued, dequeued, audio_seeks>>

\* a video check that seeks without comparing
SyncVideo_always ==
    /\ tick_pc = "sync_video"
    /\ video_mediaplayer' = set_time(video_mediaplayer, val[1])
    /\ video_seeks' = Append(video_seeks, val[1])
    /\ tick_pc' = "sync_audio"
    /\ UNCHANGED <<pc, openVars, audio_mediaplayer, timer, data_queue,
                   statusbar, queue, val, enqueued, dequeued, audio_seeks>>

\* if val != self.video_mediaplayer.get_time(): video_mediaplayer.set_time(val)
SyncVideo ==
    /\ tick_pc = "sync_video"
    /\ IF val[1] # get_time(video_mediaplayer)
       THEN /\ video_mediaplayer' = set_time(video_mediaplayer, val[1])
            /\ video_seeks' = Append(video_seeks, val[1])
       ELSE UNCHANGED <<video_mediaplayer, video_seeks>>
    /\ tick_pc' = "sync_audio"
    /\ UNCHANGED <<pc, openVars, audio_mediaplayer, timer, data_queue,
                   statusbar, queue, val, enqueued, dequeued, audio_seeks>>

\* an audio check that compares with the video player's position
SyncAudio_copy ==
    /\ tick_pc = "sync_audio"
    /\ IF val[1] # get_time(video_mediaplayer)
       THEN /\ audio_mediaplayer' = set_time(audio_mediaplayer, val[1])
            /\ audio_seeks' = Append(audio_seeks, val[1])
       ELSE UNCHANGED <<audio_mediaplayer, audio_seeks>>
    /\ tick_pc' = "idle"
    /\ val' = <<>>
    /\ UNCHANGED <<pc, openVars, video_mediaplayer, timer, data_queue,
                   statusbar, queue, enqueued, dequeued, video_seeks>>

\* if val != self.audio_mediaplayer.get_time(): audio_mediaplayer.set_time(val);
\* update_ui returns
SyncAudio ==
    /\ tick_pc = "sync_audio"
    /\ IF val[1] # get_time(audio_mediaplayer)
       THEN /\ audio_mediaplayer' = set_time(audio_mediaplayer, val[1])
            /\ audio_seeks' = Append(audio_seeks, val[1])
       ELSE UNCHANGED <<audio_mediaplayer, audio_seeks>>
    /\ tick_pc' = "idle"
    /\ val' = <<>>
    /\ UNCHANGED <<pc, openVars, video_mediaplayer, timer, data_queue,
                   statusbar, queue, enqueued, dequeued, video_seeks>>

\* one step of the timer callback
Tick == UpdateStatusbar \/ QueueGet \/ SyncVideo \/ SyncAudio

----------------------------------------------------------------------------
(* The environment: the VLC engine threads and the producer of the queue *)

\* a playing player's position advances
Advance(p) ==
    /\ p.playing
    /\ \E d \in AdvanceSteps :
          /\ p.time + d <= MaxTime
          /\ p' = [p EXCEPT !.time = @ + d]

\* a playing player stops at the end of its media (or on an engine error)
EndReached(p) ==
    /\ p.playing
    /\ p' = [p EXCEPT !.playing = FALSE]

AdvanceVideo ==
    /\ Advance(video_mediaplayer)
    /\ UNCHANGED <<pc, openVars, audio_mediaplayer, timer, data_queue,
                   enqueued, tickVars>>

AdvanceAudio ==
    /\ Advance(audio_mediaplayer)
    /\ UNCHANGED <<pc, openVars, video_mediaplayer, timer, data_queue,
                   enqueued, tickVars>>

EndVideo ==
    /\ EndReached(video_mediaplayer)
    /\ UNCHANGED <<pc, openVars, audio_mediaplayer, timer, data_queue,
                   enqueued, tickVars>>

EndAudio ==
    /\ EndReached(audio_mediaplayer)
    /\ UNCHANGED <<pc, openVars, video_mediaplayer, timer, data_queue,
                   enqueued, tickVars>>

\* a queue made with a maximum size of one: put waits while it is full
Put_bounded(item) ==
    /\ Len(enqueued) < MaxPuts
    /\ Len(queue) < 1
    /\ queue' = Append(queue, item)
    /\ enqueued' = Append(enqueued, item)
    /\ UNCHANGED <<pc, openVars, playerVars, timer, data_queue, statusbar,
                   tick_pc, val, dequeued, video_seeks, audio_seeks>>

\* the producer puts an item on the queue.Queue() of main(): no maximum size
Put(item) ==
    /\ Len(enqueued) < MaxPuts
    /\ queue' = Append(queue, item)
    /\ enqueued' = Append(enqueued, item)
    /\ UNCHANGED <<pc, openVars, playerVars, timer, data_queue, statusbar,
                   tick_pc, val, dequeued, video_seeks, audio_seeks>>

Produce == \E item \in QueueItems : Put(item)

----------------------------------------------------------------------------

Next ==
    \/ ChooseVideo
    \/ ChooseAudio
    \/ MediaNew
    \/ SetMediaVideo
    \/ SetMediaAudio
    \/ ParseTitle
    \/ BindSurfaces
    \/ PlayVideo
    \/ PlayAudio
    \/ TimerNew
    \/ AttachQueue
    \/ TimerStart
    \/ Exec
    \/ UpdateStatusbar
    \/ QueueGet
    \/ SyncVideo
    \/ SyncAudio
    \/ AdvanceVideo
    \/ AdvanceAudio
    \/ EndVideo
    \/ EndAudio
    \/ Produce

Spec == Init /\ [][Next]_vars

----------------------------------------------------------------------------
(* Properties *)

\* the steps of update_ui, recognised by the callback's position
VideoCheck == tick_pc = "sync_video" /\ tick_pc' # "sync_video"
AudioCheck == tick_pc = "sync_audio" /\ tick_pc' # "sync_audio"
GetStep == tick_pc = "get" /\ tick_pc' # "get"
StatusStep == tick_pc = "idle" /\ tick_pc' # "idle"

\* C1: when a tick has dequeued t and the video position differs from t,
\* the tick issues set_time(t) to the video player, whose position (media
\* playing) is t afterwards; the same for the audio player, so that [5000]
\* with both positions 0 leaves both at 5000.
C1_SeekWhenDifferent ==
    [][ /\ (VideoCheck /\ val[1] # get_time(video_mediaplayer))
            => /\ val = <<int(dequeued[Len(dequeued)])>>
               /\ video_seeks' = Append(video_seeks, val[1])
               /\ (is_playing(video_mediaplayer)
                      => get_time(video_mediaplayer') = val[1])
        /\ (AudioCheck /\ val[1] # get_time(audio_mediaplayer))
            => /\ audio_seeks' = Append(audio_seeks, val[1])
               /\ (is_playing(audio_mediaplayer)
                      => get_time(audio_mediaplayer') = val[1])
      ]_vars

C1_Witness ==
    /\ dequeued = <<PyInt(5000)>>
    /\ tick_pc = "idle"
    /\ video_seeks = <<5000>>
    /\ audio_seeks = <<5000>>
    /\ get_time(video_mediaplayer) = 5000
    /\ get_time(audio_mediaplayer) = 5000

\* C2: when the video position equals the dequeued t at the comparison, the
\* tick issues no set_time to the video player and leaves it as it is.
C2_NoSeekWhenEqual ==
    [][ (VideoCheck /\ val[1] = get_time(video_mediaplayer))
            => /\ video_seeks' = video_seeks
               /\ video_mediaplayer' = video_mediaplayer
      ]_vars

C2_Witness ==
    /\ dequeued = <<PyInt(5000), PyInt(5000)>>
    /\ tick_pc = "idle"
    /\ video_seeks = <<5000>>
    /\ get_time(video_mediaplayer) = 5000

\* C3: the audio check is always reached after the video check, whatever the
\* video check did, and it seeks audio to t exactly when the audio position
\* differs from t; it never touches the video player.
C3_AudioIndependent ==
    [][ /\ VideoCheck
            => /\ tick_pc' = "sync_audio"
               /\ val' = val
               /\ audio_mediaplayer' = audio_mediaplayer
               /\ audio_seeks' = audio_seeks
        /\ AudioCheck
            => /\ audio_seeks' =
                    IF val[1] # audio_mediaplayer.time
                    THEN Append(audio_seeks, val[1])
                    ELSE audio_seeks
               /\ (val[1] = audio_mediaplayer.time
                      => audio_mediaplayer' = audio_mediaplayer)
               /\ video_mediaplayer' = video_mediaplayer
               /\ video_seeks' = video_seeks
      ]_vars

C3_Witness ==
    /\ Len(dequeued) = 1
    /\ tick_pc = "idle"
    /\ video_seeks = <<>>
    /\ audio_seeks = <<int(dequeued[1])>>
    /\ get_time(video_mediaplayer) = int(dequeued[1])
    /\ get_time(audio_mediaplayer) = int(dequeued[1])

\* C4: a tick that finds the queue empty does not wait: the get is enabled
\* on an empty queue, ends the callback, and neither it nor the status
\* refresh before it seeks, moves a player or changes the queue.
C4_EmptyQueueNoOp ==
    [][ /\ tick_pc = "get" => ENABLED QueueGet
        /\ (GetStep /\ queue = <<>>)
            => /\ tick_pc' = "idle"
               /\ UNCHANGED <<video_mediaplayer, audio_mediaplayer, queue,
                              dequeued, video_seeks, audio_seeks>>
        /\ StatusStep
            => UNCHANGED <<video_mediaplayer, audio_mediaplayer, queue,
                           dequeued, video_seeks, audio_seeks>>
      ]_vars

C4_Witness ==
    /\ pc = "exec"
    /\ tick_pc = "idle"
    /\ statusbar.label = "Video: "
    /\ enqueued = <<>>
    /\ video_seeks = <<>>
    /\ audio_seeks = <<>>

\* C5: once either file dialog has been cancelled, neither player has media,
\* no play command was issued to either, no media object exists and the
\* window title is the initial one.
C5_CancelNoMutation ==
    (filename_video = "" \/ filename_audio = "")
        => /\ video_mediaplayer = media_player_new
           /\ audio_mediaplayer = media_player_new
           /\ video_media = "None"
           /\ audio_media = "None"
           /\ window_title = <<"Mini Player">>

C5_Witness ==
    /\ pc = "exec"
    /\ filename_video = "movie.mp4"
    /\ filename_audio = ""

\* C6: the status refresh of a tick shows the video position read at that
\* moment whenever video is playing, the audio position only when video is
\* not playing and audio is, and leaves the message alone when neither is
\* playing; nothing else writes the status bar.
C6_StatusText ==
    [][ /\ StatusStep
            => /\ video_mediaplayer.playing
                    => statusbar' = [label |-> "Video: ",
                                     time |-> toString(video_mediaplayer.time)]
               /\ (~video_mediaplayer.playing /\ audio_mediaplayer.playing)
                    => statusbar' = [label |-> "Audio: ",
                                     time |-> toString(audio_mediaplayer.time)]
               /\ (~video_mediaplayer.playing /\ ~audio_mediaplayer.playing)
                    => statusbar' = statusbar
               /\ (video_mediaplayer.playing /\ video_mediaplayer.time = 5000)
                    => statusbar'.time = <<0, 0, 5>>
        /\ statusbar' # statusbar => StatusStep
      ]_vars

C6_Witness ==
    /\ tick_pc = "get"
    /\ ~is_playing(video_mediaplayer)
    /\ is_playing(audio_mediaplayer)
    /\ statusbar = [label |-> "Audio: ", time |-> <<0, 0, 1>>]

\* C7: the items leave the queue in the order they were put; a tick's get
\* on a non-empty queue removes exactly the head, whatever the depth, and
\* that head (through int) is the value the tick compares; no other step
\* removes an item.
C7_Fifo == enqueued = dequeued \o queue

C7_OneHeadPerTick ==
    [][ /\ C7_Fifo /\ C7_Fifo'
        /\ (GetStep /\ queue # <<>>)
            => /\ queue' = Tail(queue)
               /\ dequeued' = Append(dequeued, Head(queue))
               /\ val' = <<int(Head(queue))>>
               /\ tick_pc' = "sync_video"
        /\ dequeued' # dequeued => GetStep
        /\ tick_pc' \in {"sync_video", "sync_audio"}
            => val' = <<int(dequeued'[Len(dequeued')])>>
      ]_vars

C7_Witness ==
    /\ tick_pc = "sync_video"
    /\ Len(dequeued) = 1
    /\ Len(queue) = 1
    /\ int(dequeued[1]) # int(queue[1])
    /\ val = <<int(enqueued[1])>>

\* C8: a put never waits and never drops, whatever the queue's length; the
\* backlog is the number of puts minus the number of gets, and only a
\* tick's get shortens it, by one.
C8_NoBoundNoBackpressure ==
    [][ /\ Len(enqueued) < MaxPuts
            => \A item \in QueueItems : ENABLED Put(item)
        /\ Len(queue) = Len(enqueued) - Len(dequeued)
        /\ Len(queue') >= Len(queue) - 1
        /\ Len(queue') < Len(queue) => GetStep
        /\ Len(enqueued') > Len(enqueued) => Len(queue') = Len(queue) + 1
      ]_vars

C8_Witness ==
    /\ pc = "exec"
    /\ statusbar.label # "Ready"
    /\ Len(queue) = MaxPuts
    /\ Len(queue) > 1

\* C9: when the constructor is through, whatever the file dialogs answered,
\* the timer is started; in the event loop a step of the callback is always
\* enabled, and a get on a non-empty queue goes on to the comparisons.
C9_TimerAlwaysRuns ==
    /\ pc \in {"show", "exec"} => (timer = "started" /\ data_queue)
    /\ pc = "exec" => ENABLED Tick
    /\ (pc = "exec" /\ tick_pc = "get" /\ queue # <<>>)
          => ENABLED (QueueGet /\ tick_pc' = "sync_video")

C9_Witness ==
    /\ pc = "exec"
    /\ filename_video = ""
    /\ video_mediaplayer.media = "None"
    /\ video_seeks # <<>>
    /\ audio_seeks # <<>>

\* a pair of players of which only one has media or was started
HalfOpen ==
    \/ video_mediaplayer.media # "None" /\ audio_mediaplayer.media = "None"
    \/ video_mediaplayer.plays # audio_mediaplayer.plays
    \/ video_mediaplayer.media # "None" /\ video_mediaplayer.plays = 0

\* C10: the callback runs only in the event loop of app.exec_(), with the
\* timer started, the queue attached and the players both opened or both
\* untouched; until then every item put is still in the queue.
C10_NoTickBeforeInit ==
    /\ (tick_pc # "idle" \/ dequeued # <<>> \/ statusbar.label # "Ready")
          => /\ pc = "exec"
             /\ timer = "started"
             /\ data_queue
             /\ ~HalfOpen
    /\ pc # "exec" => queue = enqueued

C10_Witness ==
    /\ pc = "play_audio"
    /\ HalfOpen
    /\ Len(queue) = MaxPuts

====
